---- MODULE Spec2Model ----
(***************************************************************************)
(* Model of mdformat's configuration resolver, src/mdformat/_conf.py:      *)
(* read_toml_opts walks from a directory up to the filesystem root looking *)
(* for .mdformat.toml, parses it, validates keys and values, and returns   *)
(* the parsed mapping.  The function is wrapped in functools.lru_cache().  *)
(***************************************************************************)
EXTENDS Integers, Sequences, FiniteSets, TLC

VARIABLES fs, cache, last, seen, live, writes

vars == <<fs, cache, last, seen, live, writes>>

(***************************************************************************)
(* Bounds of the model.                                                    *)
(***************************************************************************)
\* number of directories of the tree (0 is the filesystem root)
NumDirs == 3
\* largest integer literal written in a configuration file
MaxInt == 3
\* number of changes made to configuration files while the process runs
MaxWrites == 2
\* functools.lru_cache() keeps maxsize = 128 entries by default; the model
\* scales the capacity down so that a tree of NumDirs directories fills it.
maxsize == 2

(***************************************************************************)
(* Directories.  pathlib: the parent of the root is the root itself.       *)
(***************************************************************************)
Dirs == 0..(NumDirs - 1)

\* the directory tree: 1 and 2 lie in the root, 3 and 4 in 1, 5 and 6 in 2, ...
Tree == [d \in Dirs |-> IF d = 0 THEN 0 ELSE (d - 1) \div 2]

\* a walk that never leaves the starting directory
parent_stay(conf_dir) == conf_dir

\* conf_dir.parent
parent(conf_dir) == Tree[conf_dir]

RECURSIVE Chain(_)
\* the directories d, its parent, ..., root, nearest first
Chain(d) == IF Tree[d] = d THEN <<d>> ELSE <<d>> \o Chain(Tree[d])

ChainSet(d) == {Chain(d)[i] : i \in 1..Len(Chain(d))}

(***************************************************************************)
(* TOML values as Python objects.  A bool is an int in Python (True == 1), *)
(* lists and dicts are unhashable.  A float f stands for ival + 0.5.       *)
(***************************************************************************)
PyStr(s) == [type |-> "str", ival |-> 0, sval |-> s]
PyInt(i) == [type |-> "int", ival |-> i, sval |-> ""]
PyBool(b) == [type |-> "bool", ival |-> IF b THEN 1 ELSE 0, sval |-> ""]
PyFloat(i) == [type |-> "float", ival |-> i, sval |-> ""]
PyList == [type |-> "array", ival |-> 0, sval |-> ""]
PyDict == [type |-> "table", ival |-> 0, sval |-> ""]

\* isinstance(v, int): bool is a subclass of int
isinstance_int(v) == v.type \in {"int", "bool"}

isinstance_bool(v) == v.type = "bool"

\* hash(v) raises TypeError for list and dict
hashable(v) == v.type \notin {"array", "table"}

\* v in {s1, s2, ...} for a set of str literals, v hashable
in_str_set(v, S) == v.type = "str" /\ v.sval \in S

(***************************************************************************)
(* Mappings are functions from a finite set of keys to values.             *)
(***************************************************************************)
EmptyMap == [k \in {} |-> PyInt(0)]

DEFAULT_OPTS ==
    [k \in {"wrap", "number", "end_of_line", "primary_bullet_list_marker",
            "secondary_bullet_list_marker", "primary_ordered_list_marker",
            "secondary_ordered_list_marker", "thematic_break_character",
            "thematic_break_width", "escape_square_brackets",
            "entity_substitution"} |->
        CASE k = "wrap" -> PyStr("keep")
          [] k = "number" -> PyBool(FALSE)
          [] k = "end_of_line" -> PyStr("lf")
          [] k = "primary_bullet_list_marker" -> PyStr("-")
          [] k = "secondary_bullet_list_marker" -> PyStr("*")
          [] k = "primary_ordered_list_marker" -> PyStr(".")
          [] k = "secondary_ordered_list_marker" -> PyStr(")")
          [] k = "thematic_break_character" -> PyStr("_")
          [] k = "thematic_break_width" -> PyInt(70)
          [] k = "escape_square_brackets" -> PyBool(TRUE)
          [] k = "entity_substitution" -> PyBool(TRUE)]

(***************************************************************************)
(* Outcomes of a call: a returned mapping or a raised exception.           *)
(***************************************************************************)
Return(m) == [kind |-> "return", value |-> m, exc |-> "", cause |-> ""]

Raise(e, c) == [kind |-> "raise", value |-> EmptyMap, exc |-> e, cause |-> c]

Passed == [kind |-> "pass", value |-> EmptyMap, exc |-> "", cause |-> ""]

(***************************************************************************)
(* _validate_keys: the first key outside DEFAULT_OPTS raises.              *)
(***************************************************************************)
\* key validation left out
_validate_keys_none(opts) == Passed

_validate_keys(opts) ==
    IF \E key \in DOMAIN opts : key \notin DOMAIN DEFAULT_OPTS
    THEN Raise("InvalidConfError", "key")
    ELSE Passed

(***************************************************************************)
(* _validate_values: the checks in source order; the first that fails      *)
(* raises.  `x in {...}` hashes x first, so an unhashable x raises         *)
(* TypeError before any comparison.                                        *)
(***************************************************************************)
\* the bound of wrap off by one: > 0 instead of > 1
check_wrap_gt0(opts) ==
    IF "wrap" \notin DOMAIN opts THEN Passed
    ELSE LET wrap_value == opts["wrap"] IN
         IF isinstance_int(wrap_value) /\ wrap_value.ival > 0 THEN Passed
         ELSE IF ~hashable(wrap_value) THEN Raise("TypeError", "wrap")
         ELSE IF in_str_set(wrap_value, {"keep", "no"}) THEN Passed
         ELSE Raise("InvalidConfError", "wrap")

check_wrap(opts) ==
    IF "wrap" \notin DOMAIN opts THEN Passed
    ELSE LET wrap_value == opts["wrap"] IN
         IF isinstance_int(wrap_value) /\ wrap_value.ival > 1 THEN Passed
         ELSE IF ~hashable(wrap_value) THEN Raise("TypeError", "wrap")
         ELSE IF in_str_set(wrap_value, {"keep", "no"}) THEN Passed
         ELSE Raise("InvalidConfError", "wrap")

check_end_of_line(opts) ==
    IF "end_of_line" \notin DOMAIN opts THEN Passed
    ELSE IF ~hashable(opts["end_of_line"])
         THEN Raise("TypeError", "end_of_line")
    ELSE IF in_str_set(opts["end_of_line"], {"crlf", "lf", "keep"}) THEN Passed
    ELSE Raise("InvalidConfError", "end_of_line")

\* number tested with isinstance(..., int) instead of bool
check_number_int(opts) ==
    IF "number" \notin DOMAIN opts THEN Passed
    ELSE IF isinstance_int(opts["number"]) THEN Passed
    ELSE Raise("InvalidConfError", "number")

check_number(opts) ==
    IF "number" \notin DOMAIN opts THEN Passed
    ELSE IF isinstance_bool(opts["number"]) THEN Passed
    ELSE Raise("InvalidConfError", "number")

check_bullet(opts, key) ==
    IF key \notin DOMAIN opts THEN Passed
    ELSE IF ~hashable(opts[key]) THEN Raise("TypeError", key)
    ELSE IF in_str_set(opts[key], {"*", "+", "-"}) THEN Passed
    ELSE Raise("InvalidConfError", key)

_validate_values(opts) ==
    IF check_wrap(opts).kind = "raise" THEN check_wrap(opts)
    ELSE IF check_end_of_line(opts).kind = "raise" THEN check_end_of_line(opts)
    ELSE IF check_number(opts).kind = "raise" THEN check_number(opts)
    ELSE IF check_bullet(opts, "primary_bullet_list_marker").kind = "raise"
         THEN check_bullet(opts, "primary_bullet_list_marker")
    ELSE check_bullet(opts, "secondary_bullet_list_marker")

(***************************************************************************)
(* Files.  The TOML parser is an external collaborator: a file either has  *)
(* malformed syntax or parses to the mapping doc.                          *)
(***************************************************************************)
NoFile == [exists |-> FALSE, syntax_ok |-> FALSE, doc |-> EmptyMap]

Malformed == [exists |-> TRUE, syntax_ok |-> FALSE, doc |-> EmptyMap]

TomlFile(m) == [exists |-> TRUE, syntax_ok |-> TRUE, doc |-> m]

\* conf_path.is_file()
is_file(f, conf_dir) == f[conf_dir].exists

\* tomllib.load(f) wrapped in try/except TOMLDecodeError
tomllib_load(file) ==
    IF file.syntax_ok THEN Return(file.doc)
    ELSE Raise("InvalidConfError", "syntax")

\* the parsed mapping merged over the defaults before it is returned
load_conf_merged(file) ==
    LET toml_opts == tomllib_load(file) IN
    IF toml_opts.kind = "raise" THEN toml_opts
    ELSE IF _validate_keys(toml_opts.value).kind = "raise"
         THEN _validate_keys(toml_opts.value)
    ELSE IF _validate_values(toml_opts.value).kind = "raise"
         THEN _validate_values(toml_opts.value)
    ELSE Return(toml_opts.value @@ DEFAULT_OPTS)

\* lines 43-52: parse, validate keys, validate values, return the mapping
load_conf(file) ==
    LET toml_opts == tomllib_load(file) IN
    IF toml_opts.kind = "raise" THEN toml_opts
    ELSE IF _validate_keys(toml_opts.value).kind = "raise"
         THEN _validate_keys(toml_opts.value)
    ELSE IF _validate_values(toml_opts.value).kind = "raise"
         THEN _validate_values(toml_opts.value)
    ELSE Return(toml_opts.value)

(***************************************************************************)
(* The memoization cache of functools.lru_cache: entries in order of use,  *)
(* least recently used first.  Only returned values are stored; a call     *)
(* that raises stores nothing.                                             *)
(***************************************************************************)
cache_keys(c) == {c[i].key : i \in 1..Len(c)}

\* a lookup that yields the most recently stored result, whatever the key
cache_get_newest(c, k) == c[Len(c)].result

cache_get(c, k) == c[CHOOSE i \in 1..Len(c) : c[i].key = k].result

\* a hit moves the entry to the most recently used end
cache_touch(c, k) ==
    LET i == CHOOSE j \in 1..Len(c) : c[j].key = k IN
    SubSeq(c, 1, i - 1) \o SubSeq(c, i + 1, Len(c)) \o <<c[i]>>

\* a miss stores the result, dropping the least recently used entry when full
cache_put(c, k, r) ==
    LET e == [key |-> k, result |-> r] IN
    IF k \in cache_keys(c) THEN c
    ELSE IF Len(c) >= maxsize THEN Append(Tail(c), e)
    ELSE Append(c, e)

(***************************************************************************)
(* read_toml_opts.  A call yields its outcome, the cache after the call,   *)
(* the directories the walk visited, the number of filesystem accesses it  *)
(* made, the number of cache hits and whether a file was opened.           *)
(***************************************************************************)
RECURSIVE lru_cache_wrapper(_, _, _)
RECURSIVE read_toml_opts(_, _, _)

\* the defaults returned when no configuration file is found
no_conf_opts_defaults == DEFAULT_OPTS

\* `return {}` at the filesystem root, line 40
no_conf_opts == EmptyMap

\* a body whose recursive call bypasses the cache
read_toml_opts_direct(c, f, conf_dir) ==
    IF ~is_file(f, conf_dir)
    THEN IF conf_dir = parent(conf_dir)
         THEN [out |-> Return(no_conf_opts), cache |-> c, visited |-> {conf_dir},
               reads |-> 1, hits |-> 0, parsed |-> FALSE]
         ELSE LET r == read_toml_opts(c, f, parent(conf_dir)) IN
              [r EXCEPT !.visited = @ \cup {conf_dir}, !.reads = @ + 1]
    ELSE [out |-> load_conf(f[conf_dir]), cache |-> c, visited |-> {conf_dir},
          reads |-> 2, hits |-> 0, parsed |-> TRUE]

\* the decorated function body, lines 35-52; the name read_toml_opts is bound
\* to the wrapper, so the recursive call goes through the cache
read_toml_opts(c, f, conf_dir) ==
    IF ~is_file(f, conf_dir)
    THEN IF conf_dir = parent(conf_dir)
         THEN [out |-> Return(no_conf_opts), cache |-> c, visited |-> {conf_dir},
               reads |-> 1, hits |-> 0, parsed |-> FALSE]
         ELSE LET r == lru_cache_wrapper(c, f, parent(conf_dir)) IN
              [r EXCEPT !.visited = @ \cup {conf_dir}, !.reads = @ + 1]
    ELSE [out |-> load_conf(f[conf_dir]), cache |-> c, visited |-> {conf_dir},
          reads |-> 2, hits |-> 0, parsed |-> TRUE]

\* a wrapper that memoizes a failed call as well
lru_cache_wrapper_all(c, f, conf_dir) ==
    IF conf_dir \in cache_keys(c)
    THEN [out |-> Return(cache_get(c, conf_dir)),
          cache |-> cache_touch(c, conf_dir), visited |-> {conf_dir},
          reads |-> 0, hits |-> 1, parsed |-> FALSE]
    ELSE LET r == read_toml_opts(c, f, conf_dir) IN
         [r EXCEPT !.cache = cache_put(r.cache, conf_dir, r.out.value)]

\* the wrapper installed by @functools.lru_cache(), line 34
lru_cache_wrapper(c, f, conf_dir) ==
    IF conf_dir \in cache_keys(c)
    THEN [out |-> Return(cache_get(c, conf_dir)),
          cache |-> cache_touch(c, conf_dir), visited |-> {conf_dir},
          reads |-> 0, hits |-> 1, parsed |-> FALSE]
    ELSE LET r == read_toml_opts(c, f, conf_dir) IN
         IF r.out.kind = "return"
         THEN [r EXCEPT !.cache = cache_put(r.cache, conf_dir, r.out.value)]
         ELSE r

(***************************************************************************)
(* Configuration files the environment writes while the process runs.      *)
(***************************************************************************)
MapOf(k, v) == [x \in {k} |-> v]

ConfA == TomlFile(MapOf("wrap", PyInt(2)))

ConfB == TomlFile(MapOf("number", PyBool(TRUE)))

ConfBad == TomlFile(MapOf("wrap", PyInt(1)))

Files == {ConfA, ConfB, ConfBad}

(***************************************************************************)
(* State.  fs: the configuration file of each directory; cache: the        *)
(* memoization cache; last: the most recent call, while the filesystem is  *)
(* as that call saw it; seen: an earlier call that is being watched; live: *)
(* the directories that call visited and that have stayed memoized since.  *)
(***************************************************************************)
NoCall == [op |-> "none", dir |-> 0, out |-> Passed, visited |-> {},
           reads |-> 0, hits |-> 0, parsed |-> FALSE, later |-> FALSE]

\* the process starts on a tree without configuration files, its cache empty
Init ==
    /\ fs = [d \in Dirs |-> NoFile]
    /\ cache = <<>>
    /\ last = NoCall
    /\ seen = NoCall
    /\ live = {}
    /\ writes = 0

\* a caller invokes read_toml_opts(conf_dir); watch marks the call as the one
\* later calls are compared with
Resolve(conf_dir, watch) ==
    LET r == lru_cache_wrapper(cache, fs, conf_dir)
        call == [op |-> "call", dir |-> conf_dir, out |-> r.out,
                 visited |-> r.visited, reads |-> r.reads, hits |-> r.hits,
                 parsed |-> r.parsed, later |-> seen.op = "call"]
    IN /\ watch => seen.op = "none"
       /\ cache' = r.cache
       /\ last' = call
       /\ IF watch
          THEN /\ seen' = call
               /\ live' = IF r.out.kind = "return"
                          THEN r.visited \cap cache_keys(r.cache) ELSE {}
          ELSE /\ seen' = seen
               /\ live' = live \cap cache_keys(r.cache)
       /\ UNCHANGED <<fs, writes>>

CreateConf(d, file) ==
    /\ writes < MaxWrites
    /\ ~fs[d].exists
    /\ fs' = [fs EXCEPT ![d] = file]
    /\ last' = NoCall
    /\ writes' = writes + 1
    /\ UNCHANGED <<cache, seen, live>>

ModifyConf(d, file) ==
    /\ writes < MaxWrites
    /\ fs[d].exists
    /\ file # fs[d]
    /\ fs' = [fs EXCEPT ![d] = file]
    /\ last' = NoCall
    /\ writes' = writes + 1
    /\ UNCHANGED <<cache, seen, live>>

DeleteConf(d) ==
    /\ writes < MaxWrites
    /\ fs[d].exists
    /\ fs' = [fs EXCEPT ![d] = NoFile]
    /\ last' = NoCall
    /\ writes' = writes + 1
    /\ UNCHANGED <<cache, seen, live>>

Next ==
    \/ \E d \in Dirs, watch \in BOOLEAN : Resolve(d, watch)
    \/ \E d \in Dirs, file \in Files : CreateConf(d, file)
    \/ \E d \in Dirs, file \in Files : ModifyConf(d, file)
    \/ \E d \in Dirs : DeleteConf(d)

Spec == Init /\ [][Next]_vars

(***************************************************************************)
(* Second specification: the process starts on a tree holding one          *)
(* arbitrary configuration file, below an optional valid file in the root, *)
(* and the filesystem stays as it is while directories are resolved.       *)
(***************************************************************************)
Values ==
    {PyInt(i) : i \in (0 - 1)..MaxInt}
        \cup {PyBool(b) : b \in BOOLEAN}
        \cup {PyStr(x) : x \in {"keep", "no", "bad", "lf", "crlf", "*", "+", "-"}}
        \cup {PyFloat(i) : i \in {MaxInt}}
        \cup {PyList, PyDict}

\* a valid base document whose unenforced key holds an odd value
BaseDoc == MapOf("end_of_line", PyStr("lf")) @@ MapOf("thematic_break_width", PyStr("bad"))

OneKeyDocs == {MapOf(k, v) : k \in (DOMAIN DEFAULT_OPTS) \cup {"color"}, v \in Values}

WrapNumberDocs == {MapOf("wrap", v) @@ MapOf("number", w) : v \in Values, w \in Values}

Docs ==
    {EmptyMap, BaseDoc} \cup OneKeyDocs \cup WrapNumberDocs
        \cup {m @@ BaseDoc : m \in {MapOf(k, v) : k \in {"wrap", "number", "color"}, v \in Values}}

AllFiles == {Malformed} \cup {TomlFile(m) : m \in Docs}

InitFile ==
    /\ \E file \in AllFiles, d \in Dirs, top \in {NoFile, ConfB} :
           fs = [e \in Dirs |-> IF e = d THEN file ELSE IF e = 0 THEN top ELSE NoFile]
    /\ cache = <<>>
    /\ last = NoCall
    /\ seen = NoCall
    /\ live = {}
    /\ writes = 0

NextFile == \E d \in Dirs : Resolve(d, FALSE)

SpecFile == InitFile /\ [][NextFile]_vars

(***************************************************************************)
(* What the properties speak about: the nearest configuration file of a    *)
(* directory and the schema's rules.                                       *)
(***************************************************************************)
NearestConf(f, d) ==
    LET c == Chain(d)
        idx == {i \in 1..Len(c) : f[c[i]].exists}
    IN IF idx = {} THEN NoFile
       ELSE f[c[CHOOSE i \in idx : \A j \in idx : i <= j]]

EnforcedKeys ==
    {"wrap", "end_of_line", "number", "primary_bullet_list_marker",
     "secondary_bullet_list_marker"}

RuleHolds(k, v) ==
    CASE k = "wrap" ->
             \/ v.type = "int" /\ v.ival > 1
             \/ v.type = "str" /\ v.sval \in {"keep", "no"}
      [] k = "end_of_line" -> v.type = "str" /\ v.sval \in {"crlf", "lf", "keep"}
      [] k = "number" -> v.type = "bool"
      [] k \in {"primary_bullet_list_marker", "secondary_bullet_list_marker"} ->
             v.type = "str" /\ v.sval \in {"*", "+", "-"}
      [] OTHER -> TRUE

Conforms(m) ==
    /\ DOMAIN m \subseteq DOMAIN DEFAULT_OPTS
    /\ \A k \in (DOMAIN m) \cap EnforcedKeys : RuleHolds(k, m[k])

ValidConf(file) == file.syntax_ok /\ Conforms(file.doc)

\* the keys are recognized and every enforced key other than k obeys its rule
OthersValid(file, k) ==
    /\ file.exists
    /\ file.syntax_ok
    /\ DOMAIN file.doc \subseteq DOMAIN DEFAULT_OPTS
    /\ k \in DOMAIN file.doc
    /\ \A j \in ((DOMAIN file.doc) \cap EnforcedKeys) \ {k} : RuleHolds(j, file.doc[j])

Called == last.op = "call"

\* the last call opened and parsed the nearest configuration file
Parsed == Called /\ last.parsed

\* the last call came after the watched call, with the same starting directory
Repeated == Called /\ last.later /\ last.dir = seen.dir

(***************************************************************************)
(* C1 as stated: the outcome of every resolve(d) is that of the nearest    *)
(* configuration file on the chain of d: its contents if valid, a failure  *)
(* if invalid, the empty mapping if there is none.                         *)
(***************************************************************************)
C1_NearestDecides ==
    Called =>
        LET n == NearestConf(fs, last.dir) IN
        IF ~n.exists THEN last.out = Return(EmptyMap)
        ELSE IF ValidConf(n) THEN last.out = Return(n.doc)
        ELSE last.out.kind = "raise"

(***************************************************************************)
(* C1 amended: the same, for every resolve(d) whose walk is not answered   *)
(* from the memoization cache.                                             *)
(***************************************************************************)
C1_NearestDecidesUncached ==
    (Called /\ last.hits = 0) =>
        LET n == NearestConf(fs, last.dir) IN
        IF ~n.exists THEN last.out = Return(EmptyMap)
        ELSE IF ValidConf(n) THEN last.out = Return(n.doc)
        ELSE last.out.kind = "raise"

C1_Witness ==
    /\ Called
    /\ last.hits = 0
    /\ last.dir # 0
    /\ fs[last.dir] = ConfA
    /\ fs[0] = ConfB
    /\ last.out = Return(ConfA.doc)

(***************************************************************************)
(* C2 as stated: when no directory on the chain of d holds a configuration *)
(* file, resolve(d) returns the empty mapping.                             *)
(***************************************************************************)
C2_NoConfEmpty ==
    (Called /\ ~NearestConf(fs, last.dir).exists) => last.out = Return(EmptyMap)

(***************************************************************************)
(* C2 amended: when no directory on the chain of d holds a configuration   *)
(* file and the walk is not answered from the memoization cache,           *)
(* resolve(d) walks to the root and returns the empty mapping.             *)
(***************************************************************************)
C2_NoConfEmptyUncached ==
    (Called /\ last.hits = 0 /\ ~NearestConf(fs, last.dir).exists) =>
        /\ last.out = Return(EmptyMap)
        /\ last.visited = ChainSet(last.dir)

C2_Witness ==
    /\ Called
    /\ last.hits = 0
    /\ last.dir # 0
    /\ ~NearestConf(fs, last.dir).exists
    /\ \E d \in Dirs : fs[d].exists
    /\ last.out = Return(EmptyMap)

(***************************************************************************)
(* C3: every mapping resolve has returned and every memoized mapping has   *)
(* only schema keys, and its enforced keys obey their rules.               *)
(***************************************************************************)
C3_ResolvedConform ==
    /\ (Called /\ last.out.kind = "return") => Conforms(last.out.value)
    /\ \A i \in 1..Len(cache) : Conforms(cache[i].result)

C3_Witness ==
    /\ Called
    /\ last.out.kind = "return"
    /\ "wrap" \in DOMAIN last.out.value
    /\ "number" \in DOMAIN last.out.value
    /\ \E i \in 1..Len(cache) : cache[i].result = last.out.value

(***************************************************************************)
(* C4: when the nearest configuration file parses to a mapping with only   *)
(* recognized keys whose enforced keys obey their rules, resolve returns   *)
(* exactly the parsed key/value pairs, nothing added, removed or changed.  *)
(***************************************************************************)
C4_ReturnsParsed ==
    (Parsed /\ ValidConf(NearestConf(fs, last.dir))) =>
        last.out = Return(NearestConf(fs, last.dir).doc)

C4_Witness ==
    /\ Parsed
    /\ NearestConf(fs, last.dir) = TomlFile(MapOf("wrap", PyStr("no")) @@ BaseDoc)
    /\ last.out.kind = "return"
    /\ DOMAIN last.out.value = {"wrap", "end_of_line", "thematic_break_width"}
    /\ last.out.value["thematic_break_width"] = PyStr("bad")

(***************************************************************************)
(* C5: when the nearest configuration file that resolve parses is          *)
(* malformed, has an unrecognized key or gives an enforced key a value of  *)
(* any type that breaks its rule, resolve fails with InvalidConfError.     *)
(***************************************************************************)
C5_OnlyInvalidConfError ==
    (Parsed /\ ~ValidConf(NearestConf(fs, last.dir))) =>
        /\ last.out.kind = "raise"
        /\ last.out.exc = "InvalidConfError"

(***************************************************************************)
(* C6: for a parsed file with recognized keys and the other enforced keys  *)
(* valid, resolve succeeds exactly when wrap is an integer > 1 or "keep"   *)
(* or "no", and fails for every other value.                               *)
(***************************************************************************)
C6_WrapRule ==
    (Parsed /\ OthersValid(NearestConf(fs, last.dir), "wrap")) =>
        (last.out.kind = "return"
            <=> RuleHolds("wrap", NearestConf(fs, last.dir).doc["wrap"]))

C6_Witness ==
    /\ Parsed
    /\ OthersValid(NearestConf(fs, last.dir), "wrap")
    /\ NearestConf(fs, last.dir).doc["wrap"] = PyBool(TRUE)
    /\ last.out.kind = "raise"

(***************************************************************************)
(* C7: for a parsed file with recognized keys and the other enforced keys  *)
(* valid, resolve succeeds exactly when number is a genuine boolean.       *)
(***************************************************************************)
C7_NumberRule ==
    (Parsed /\ OthersValid(NearestConf(fs, last.dir), "number")) =>
        (last.out.kind = "return"
            <=> NearestConf(fs, last.dir).doc["number"].type = "bool")

C7_Witness ==
    /\ Parsed
    /\ OthersValid(NearestConf(fs, last.dir), "number")
    /\ NearestConf(fs, last.dir).doc["number"] = PyInt(1)
    /\ last.out.kind = "raise"

StopsAt(a) == last.visited \cap (ChainSet(a) \ {a}) = {}

====
